---- MODULE Spec2Model ----
(***************************************************************************)
(* PredictWell browser session / navigation layer.                         *)
(*                                                                         *)
(* Three copies of the AUTH helper exist in the repository:                *)
(*   "nav"    src/web/auth.js            (mountNav, navHTML)               *)
(*   "inline" src/unnamed/part_001:2-42  (mountHeader, headerHTML)         *)
(*   "iife"   src/unnamed/part_001:51-113 (mountHeader, headerHTML)        *)
(* They share the credential store (localStorage keys pw_user, pw_token)   *)
(* and differ in how they render and mount the navigation.                 *)
(***************************************************************************)
EXTENDS Naturals, Sequences, FiniteSets, TLC

VARIABLES localStorage, now, page, last, ui, call

vars == <<localStorage, now, page, last, ui, call>>

(***************************************************************************)
(* Bounds                                                                  *)
(***************************************************************************)
\* Date.now() takes the values 0..MaxNow.
MaxNow == 1

\* Browser tabs of the origin.  A tab that no action of a specification
\* drives stays on its blank initial page.
Tabs == {"A", "B"}

(***************************************************************************)
(* JavaScript values.  Every value is a record of the same three fields so *)
(* that values of different JavaScript types can be compared.              *)
(*   t   the type tag                                                      *)
(*   s   the payload of a primitive, the email of an object                *)
(*   has for an object: whether it has an own property "email"             *)
(***************************************************************************)
JV(t, s, has) == [t |-> t, s |-> s, has |-> has]
JSNull == JV("null", "", FALSE)
Undefined == JV("undefined", "", FALSE)
JSString(s) == JV("string", s, FALSE)
JSBool(b) == JV("boolean", IF b THEN "true" ELSE "false", FALSE)
JSNumber(s) == JV("number", s, FALSE)
\* the object { email: e }
JSObject(e) == JV("object", e, TRUE)
\* the object {}
EmptyObject == JV("object", "", FALSE)
\* a thrown exception, by name
JSError(name) == JV("error", name, FALSE)
IsError(v) == v.t = "error"

\* ToBoolean, as applied by !! and ||
Truthy(v) ==
    \/ v.t = "object"
    \/ v.t = "boolean" /\ v.s = "true"
    \/ v.t = "number" /\ v.s # "0"
    \/ v.t = "string" /\ v.s # ""

(***************************************************************************)
(* Input universes                                                         *)
(***************************************************************************)
\* An email holding a character above U+00FF (here U+540D), which btoa rejects.
WideEmail == "U+540D@x.org"
Emails == {"a@x.org", "b@x.org", "", WideEmail}
\* Identity objects handed to login: { email: e } and {} (email missing).
Identities == {JSObject(e) : e \in Emails} \cup {EmptyObject}
\* What a caller can hand to login(u).
LoginInputs == Identities \cup {JSNull}

keyUser == "pw_user"
keyToken == "pw_token"
Keys == {keyUser, keyToken}

(***************************************************************************)
(* JSON.stringify / JSON.parse / btoa on the texts of the model            *)
(***************************************************************************)
JSONstringify(u) ==
    CASE u.t = "null" -> "null"
      [] u.t = "boolean" -> u.s
      [] u.t = "number" -> u.s
      [] u.t = "string" -> "\"" \o u.s \o "\""
      [] u.t = "object" /\ u.has -> "{\"email\":\"" \o u.s \o "\"}"
      [] OTHER -> "{}"

\* JSON.parse: the value a text denotes, or a SyntaxError.
JSONparse(text) ==
    CASE text = "null" -> JSNull
      [] text = "false" -> JSBool(FALSE)
      [] text = "true" -> JSBool(TRUE)
      [] text = "0" -> JSNumber("0")
      [] text = "1" -> JSNumber("1")
      [] text = "\"\"" -> JSString("")
      [] text = "{}" -> EmptyObject
      [] \E e \in Emails : text = JSONstringify(JSObject(e)) ->
            JSObject(CHOOSE e \in Emails : text = JSONstringify(JSObject(e)))
      [] OTHER -> JSError("SyntaxError")

\* `${v}` : template-literal conversion of a property value to text
TemplateText(v) == IF v.t = "undefined" THEN "undefined" ELSE v.s

\* u.email : property read; on null it throws a TypeError
GetEmail(u) ==
    CASE u.t = "null" -> JSError("TypeError")
      [] u.t = "undefined" -> JSError("TypeError")
      [] u.t = "object" /\ u.has -> JSString(u.s)
      [] OTHER -> Undefined

\* btoa: base64 text of a Latin-1 string; InvalidCharacterError otherwise.
\* The encoding is kept opaque: an injective, never empty text.
HasWideChar(s) == \E n \in 0..MaxNow + 1 : s = WideEmail \o ":" \o ToString(n)
btoa(s) == IF HasWideChar(s) THEN JSError("InvalidCharacterError")
           ELSE JSString("b64(" \o s \o ")")

(***************************************************************************)
(* Credential store: localStorage[k] is <<>> when the key is absent and    *)
(* <<text>> when it holds text.                                            *)
(***************************************************************************)
getItem(ls, k) == IF ls[k] = <<>> THEN JSNull ELSE JSString(ls[k][1])
setItem(ls, k, text) == [ls EXCEPT ![k] = <<text>>]
removeItem(ls, k) == [ls EXCEPT ![k] = <<>>]

(***************************************************************************)
(* Session state accessor (identical in the three copies)                  *)
(***************************************************************************)
\* get user(){ try{ return JSON.parse(getItem(keyUser)||'null'); }catch{ return null; } }
user_nocatch(ls) ==
    LET raw == getItem(ls, keyUser)
    IN  JSONparse(IF Truthy(raw) THEN raw.s ELSE "null")
user(ls) ==
    LET raw == getItem(ls, keyUser)
        v == JSONparse(IF Truthy(raw) THEN raw.s ELSE "null")
    IN  IF IsError(v) THEN JSNull ELSE v

\* get token(){ return getItem(keyToken); }
token(ls) == getItem(ls, keyToken)

\* isAuthed(){ return !!this.user && !!this.token; }
\* An exception raised by the user getter would propagate.
isAuthed_or(ls) ==
    IF IsError(user(ls)) THEN user(ls)
    ELSE JSBool(Truthy(user(ls)) \/ Truthy(token(ls)))
isAuthed(ls) ==
    IF IsError(user(ls)) THEN user(ls)
    ELSE JSBool(Truthy(user(ls)) /\ Truthy(token(ls)))

(***************************************************************************)
(* Documents.  An element is a record; kids are its child elements in      *)
(* order (text nodes are folded into `text`); click counts the click       *)
(* listeners bound to it.  A document is its body element.  A node is      *)
(* addressed by its path of child indices from the body.                   *)
(***************************************************************************)
El(tag, cls, id, href, text, kids) ==
    [tag |-> tag, cls |-> cls, id |-> id, href |-> href, text |-> text,
     click |-> 0, kids |-> kids]
Link(href, id, text) == El("a", "", id, href, text, <<>>)

RECURSIVE Paths(_)
Paths(el) ==
    {<<>>} \cup UNION {{<<i>> \o p : p \in Paths(el.kids[i])} : i \in 1..Len(el.kids)}

RECURSIVE NodeAt(_, _)
NodeAt(el, p) == IF p = <<>> THEN el ELSE NodeAt(el.kids[Head(p)], Tail(p))

RECURSIVE SetNode(_, _, _)
SetNode(el, p, new) ==
    IF p = <<>> THEN new
    ELSE [el EXCEPT !.kids[Head(p)] = SetNode(el.kids[Head(p)], Tail(p), new)]

IsPrefix(p, q) == Len(p) <= Len(q) /\ SubSeq(q, 1, Len(p)) = p
\* document (pre-)order of two different paths
Before(p, q) ==
    \/ IsPrefix(p, q)
    \/ \E i \in 1..Len(p) :
          /\ i <= Len(q)
          /\ SubSeq(p, 1, i - 1) = SubSeq(q, 1, i - 1)
          /\ p[i] < q[i]

\* the result of a query that matches nothing
NoNode == <<0>>
First(S) == IF S = {} THEN NoNode
            ELSE CHOOSE p \in S : \A q \in S \ {p} : Before(p, q)

\* A compound selector tag.cls#id; "" leaves a part unconstrained.
Compound(tag, cls, id) == [tag |-> tag, cls |-> cls, id |-> id]
MatchesCompound(c, n) ==
    /\ c.tag = "" \/ n.tag = c.tag
    /\ c.cls = "" \/ n.cls = c.cls
    /\ c.id = "" \/ n.id = c.id

\* A selector is a sequence of compounds joined by descendant combinators.
RECURSIVE Matches(_, _, _)
Matches(doc, p, sel) ==
    /\ MatchesCompound(sel[Len(sel)], NodeAt(doc, p))
    /\ \/ Len(sel) = 1
       \/ \E k \in 0..Len(p) - 1 :
             Matches(doc, SubSeq(p, 1, k), SubSeq(sel, 1, Len(sel) - 1))

\* document.querySelector(sel)
querySelector(doc, sel) == First({p \in Paths(doc) : Matches(doc, p, sel)})
\* host.querySelector(sel): the first matching descendant of the host
querySelectorIn(doc, host, sel) ==
    First({p \in Paths(doc) : p # host /\ IsPrefix(host, p) /\ Matches(doc, p, sel)})
\* document.getElementById(id)
getElementById(doc, id) == querySelector(doc, <<Compound("", "", id)>>)

\* host.insertAdjacentHTML('beforeend', html)
insertBeforeEnd(doc, host, html) ==
    LET h == NodeAt(doc, host)
    IN  SetNode(doc, host, [h EXCEPT !.kids = h.kids \o html])
\* host.innerHTML = html
setInnerHTML(doc, host, html) ==
    SetNode(doc, host, [NodeAt(doc, host) EXCEPT !.kids = html])
\* document.body.prepend(el)
bodyPrepend(doc, el) == [doc EXCEPT !.kids = <<el>> \o doc.kids]
\* el.addEventListener('click', handler)
addClickListener(doc, p) ==
    LET n == NodeAt(doc, p) IN SetNode(doc, p, [n EXCEPT !.click = n.click + 1])

(***************************************************************************)
(* Navigation renderer.  The markup is given as the elements it parses to. *)
(* An email is taken to hold no markup characters.                         *)
(***************************************************************************)
Html(threw, html) == [threw |-> threw, html |-> html]

\* const email = this.user?.email || 'Account';
AccountLabel(ls) ==
    LET u == user(ls)
        e == IF u.t \in {"null", "undefined"} THEN Undefined ELSE GetEmail(u)
    IN  IF Truthy(e) THEN e.s ELSE "Account"

PortalLinks ==
    << Link("index.html", "", "Home"),
       Link("/portal/patient/login.html", "", "Patient Portal"),
       Link("/portal/doctor/login.html", "", "Doctor Portal") >>
AccountLinks(ls) ==
    << Link("javascript:void(0)", "pw-account", AccountLabel(ls)),
       Link("javascript:void(0)", "pw-logout", "Logout") >>
LoginLinks ==
    << Link("login.html", "", "Login"), Link("register.html", "", "Register") >>

\* AUTH.navHTML of auth.js
navHTML_rawPresence(ls) ==
    IF getItem(ls, keyUser) # JSNull /\ getItem(ls, keyToken) # JSNull
    THEN Html(FALSE, << El("nav", "pw-nav", "pw-nav", "", "",
                           PortalLinks \o AccountLinks(ls)) >>)
    ELSE Html(FALSE, << El("nav", "pw-nav", "pw-nav", "", "", PortalLinks) >>)
navHTML(ls) ==
    IF IsError(isAuthed(ls)) THEN Html(TRUE, <<>>)
    ELSE IF isAuthed(ls) = JSBool(TRUE)
    THEN Html(FALSE, << El("nav", "pw-nav", "pw-nav", "", "",
                           PortalLinks \o AccountLinks(ls)) >>)
    ELSE Html(FALSE, << El("nav", "pw-nav", "pw-nav", "", "", PortalLinks) >>)

HeaderLinks ==
    << Link("index.html", "", "Home"),
       Link("eldercare-patient.html", "", "Patient Portal"),
       El("span", "sep", "", "", "", <<>>) >>

\* headerHTML of both copies in part_001
headerHTML(ls) ==
    IF IsError(isAuthed(ls)) THEN Html(TRUE, <<>>)
    ELSE IF isAuthed(ls) = JSBool(TRUE)
    THEN Html(FALSE, << El("nav", "nav", "", "", "", HeaderLinks \o AccountLinks(ls)) >>)
    ELSE Html(FALSE, << El("nav", "nav", "", "", "", HeaderLinks \o LoginLinks) >>)

Scripts == {"nav", "inline", "iife"}
\* the render operation of a copy
Render(script, ls) == IF script = "nav" THEN navHTML(ls) ELSE headerHTML(ls)

(***************************************************************************)
(* login / logout                                                          *)
(***************************************************************************)
\* Which of login's two setItem calls the storage rejects (QuotaExceededError).
QuotaFailures == {"none", "user", "token"}

Outcome(ls, threw, wrote) == [ls |-> ls, threw |-> threw, wrote |-> wrote]

\* login(u){ setItem(keyUser, JSON.stringify(u));
\*           setItem(keyToken, btoa(`${u.email}:${Date.now()}`)); }
\* An exception ends the call where it is raised; what was written stays.
login_tokenOnly(ls, u, time, quota) ==
    LET e == GetEmail(u)
        tok == btoa(TemplateText(e) \o ":" \o ToString(time))
    IN  IF IsError(e) \/ IsError(tok) \/ quota # "none" THEN Outcome(ls, TRUE, {})
        ELSE Outcome(setItem(ls, keyToken, tok.s), FALSE, {keyToken})
login(ls, u, time, quota) ==
    IF quota = "user" THEN Outcome(ls, TRUE, {})
    ELSE LET ls1 == setItem(ls, keyUser, JSONstringify(u))
             e == GetEmail(u)
             tok == IF IsError(e) THEN e
                    ELSE btoa(TemplateText(e) \o ":" \o ToString(time))
         IN  IF IsError(tok) \/ quota = "token"
             THEN Outcome(ls1, TRUE, {keyUser})
             ELSE Outcome(setItem(ls1, keyToken, tok.s), FALSE, Keys)

\* logout(){ removeItem(keyUser); removeItem(keyToken); }
logout_userOnly(ls) == removeItem(ls, keyUser)
logout(ls) == removeItem(removeItem(ls, keyUser), keyToken)

(***************************************************************************)
(* Page mount controller                                                   *)
(***************************************************************************)
Mounted(doc, threw, rendered) == [doc |-> doc, threw |-> threw, rendered |-> rendered]

\* lo.addEventListener('click', ...) when the logout control exists
BindLogout(doc, lo) == IF lo = NoNode THEN doc ELSE addClickListener(doc, lo)

SelHeaderInner == <<Compound("", "header", ""), Compound("", "header-inner", "")>>
SelHeaderHeaderInner == <<Compound("header", "header", ""), Compound("", "header-inner", "")>>
SelHeader == <<Compound("header", "header", "")>>
SelNav == <<Compound("", "", "pw-nav")>>
SelLogout == <<Compound("", "", "pw-logout")>>

\* auth.js:49-52, the first candidate selector that matches
navHost(doc) ==
    LET h1 == querySelector(doc, SelHeaderInner)
        h2 == querySelector(doc, SelHeaderHeaderInner)
        h3 == querySelector(doc, SelHeader)
    IN  IF h1 # NoNode THEN h1 ELSE IF h2 # NoNode THEN h2 ELSE h3

\* AUTH.mountNav of auth.js
mountNav(doc, ls) ==
    LET host == navHost(doc)
        r == navHTML(ls)
        d1 == insertBeforeEnd(doc, host, r.html)
    IN  IF host = NoNode THEN Mounted(doc, FALSE, FALSE)
        ELSE IF querySelectorIn(doc, host, SelNav) # NoNode
        THEN Mounted(doc, FALSE, FALSE)
        ELSE IF r.threw THEN Mounted(doc, TRUE, FALSE)
        ELSE Mounted(BindLogout(d1, querySelectorIn(d1, host, SelLogout)), FALSE, TRUE)

NewHeader == El("header", "header", "", "", "", <<>>)

\* part_001:33 and part_001:95
headerHost(doc) == querySelector(doc, SelHeader)

\* AUTH.mountHeader of part_001:94-104
mountHeaderIife(doc, ls) ==
    LET found == headerHost(doc)
        d0 == IF found = NoNode THEN bodyPrepend(doc, NewHeader) ELSE doc
        host == IF found = NoNode THEN <<1>> ELSE found
        r == headerHTML(ls)
        d1 == setInnerHTML(d0, host, r.html)
    IN  IF r.threw THEN Mounted(d0, TRUE, FALSE)
        ELSE Mounted(BindLogout(d1, getElementById(d1, "pw-logout")), FALSE, TRUE)

\* PW_AUTH.mountHeader of part_001:32-39.  body.prepend(...) returns
\* undefined, so after creating a header the host is no element.
mountHeaderInline(doc, ls) ==
    LET found == headerHost(doc)
        r == headerHTML(ls)
        d1 == setInnerHTML(doc, found, r.html)
    IN  IF found = NoNode THEN Mounted(bodyPrepend(doc, NewHeader), FALSE, FALSE)
        ELSE IF r.threw THEN Mounted(doc, TRUE, FALSE)
        ELSE Mounted(BindLogout(d1, getElementById(d1, "pw-logout")), FALSE, TRUE)

\* the element a copy's mount operation finds as its host (NoNode: none)
HostOf(script, doc) == IF script = "nav" THEN navHost(doc) ELSE headerHost(doc)

\* the mount operation of a copy
Mount(script, doc, ls) ==
    CASE script = "nav" -> mountNav(doc, ls)
      [] script = "inline" -> mountHeaderInline(doc, ls)
      [] OTHER -> mountHeaderIife(doc, ls)

(***************************************************************************)
(* Pages                                                                   *)
(***************************************************************************)
Body(kids) == El("body", "", "", "", "", kids)
Logo == El("img", "logo", "", "", "", <<>>)
Tagline == El("p", "tagline", "", "", "PredictWell", <<>>)
Main == El("main", "", "", "", "", <<>>)

\* The documents a page of the site may have: no header; a header holding
\* logo and tagline; a header with an inner wrapper; a div.header wrapper.
Layouts ==
    { Body(<<Main>>),
      Body(<<El("header", "header", "", "", "", <<Logo, Tagline>>), Main>>),
      Body(<<El("header", "header", "", "", "",
                <<El("div", "header-inner", "", "", "", <<Logo, Tagline>>)>>), Main>>),
      Body(<<El("div", "header", "", "", "",
                <<El("div", "header-inner", "", "", "", <<Logo>>)>>), Main>>) }

\* A tab's page: the script it carries ("none": a page without the helper),
\* document.readyState, whether the script has run (window.PW_AUTH is
\* set), the DOMContentLoaded listeners it registered, the style elements it
\* added to the head, the document body, and a navigation requested through
\* location.href ("" when none).
Page(script, readyState, defined, dcl, styles, doc, href) ==
    [script |-> script, readyState |-> readyState, defined |-> defined,
     dcl |-> dcl, styles |-> styles, doc |-> doc, href |-> href]
BlankPage == Page("none", "complete", FALSE, 0, 0, Body(<<>>), "")

(***************************************************************************)
(* The risk page: health check, risk form and CSV upload against the API   *)
(***************************************************************************)
MaxScore == 17
MaxSubmits == 2
ModerateMin == 6
ModerateMax == 15
Scores == 0..MaxScore
Actions == {"health", "risk", "upload"}

\* What the API answers to one request: whether the request reached it,
\* the status, the body text, whether the body is JSON, and its risk_score.
Resp(net, status, text, json, hasScore, score) ==
    [net |-> net, status |-> status, text |-> text, json |-> json,
     hasScore |-> hasScore, score |-> score]
NetworkError == Resp(FALSE, 0, "", FALSE, FALSE, 0)
Scored(n) == Resp(TRUE, 200, "{\"risk_score\": " \o ToString(n) \o "}", TRUE, TRUE, n)
StatusOk == Resp(TRUE, 200, "{\"status\": \"ok\"}", TRUE, FALSE, 0)
Rejected == Resp(TRUE, 422, "{\"detail\": \"invalid\"}", TRUE, FALSE, 0)
ServerError == Resp(TRUE, 500, "Internal Server Error", FALSE, FALSE, 0)
Malformed == Resp(TRUE, 200, "{\"risk_score\": ", FALSE, FALSE, 0)
Failures == {NetworkError, Rejected, ServerError, Malformed}

\* await fetch(...) followed by await r.json(): the parsed body, or the
\* exception that reaches the catch block.
Fetched(threw, err, j) == [threw |-> threw, err |-> err, j |-> j]
fetchJson(resp) ==
    IF ~resp.net THEN Fetched(TRUE, "TypeError: Failed to fetch", resp)
    ELSE IF ~resp.json THEN Fetched(TRUE, "SyntaxError: Unexpected token", resp)
    ELSE Fetched(FALSE, "", resp)
stringify(j) == j.text

\* Number(j?.risk_score ?? 0)
scoreOf(j) == IF j.hasScore THEN j.score ELSE 0

Band(label, cls) == [label |-> label, cls |-> cls]
\* (a band test that leaves the upper boundary out of Moderate)
classify_exclusive(score) ==
    IF score >= ModerateMin /\ score < ModerateMax THEN Band("Moderate", "moderate")
    ELSE IF score >= ModerateMax THEN Band("High", "high")
    ELSE Band("Low", "low")
classify(score) ==
    IF score >= ModerateMin /\ score <= ModerateMax THEN Band("Moderate", "moderate")
    ELSE IF score > ModerateMax THEN Band("High", "high")
    ELSE Band("Low", "low")

\* #riskBadge: whether the page has it, its text and class list, and the
\* submission whose response wrote it (0: none yet).
Badge(present, text, classes, by) ==
    [present |-> present, text |-> text, classes |-> classes, by |-> by]
showBadge(badge, j, by) ==
    IF ~badge.present THEN badge
    ELSE LET score == scoreOf(j)
             band == classify(score)
         IN  Badge(TRUE,
                   "Risk Level: " \o band.label \o " (score " \o ToString(score) \o ")",
                   (badge.classes \ {"low", "moderate", "high"}) \cup {band.cls},
                   by)

Request(kind, seq) == [kind |-> kind, seq |-> seq]
NoRequest == Request("none", 0)
\* The page: the three output areas (with the submission that wrote each),
\* the badge, the requests in flight, per action the clicks made and the
\* requests sent, and the request handled most recently with its answer.
InitialForms ==
    {[out |-> [a \in Actions |-> ""], by |-> [a \in Actions |-> 0],
      badge |-> Badge(present, "", {}, 0), inflight |-> {},
      clicks |-> [a \in Actions |-> 0], sent |-> [a \in Actions |-> 0],
      skipped |-> 0, done |-> NoRequest, answer |-> NetworkError] :
        present \in BOOLEAN}

\* Calls of login and logout in progress: per tab the call it is inside
\* (between the call's two key accesses) with its argument and number; per
\* key the number of the login call that wrote the stored value (0: none);
\* the number of calls begun; and whether some call has had its two
\* accesses separated by an access of another tab.
Idle == [op |-> "idle", u |-> JSNull, id |-> 0]
InitialCalls ==
    [pc |-> [t \in Tabs |-> Idle], writer |-> [k \in Keys |-> 0],
     begun |-> 0, separated |-> FALSE]

\* The most recent operation: its name, the tab that ran it, whether it
\* raised, its return value, the keys it wrote, whether it rendered
\* navigation, and whether the store was authenticated when it began.
Last(op, tab, threw, res, wrote, rendered, authedBefore) ==
    [op |-> op, tab |-> tab, threw |-> threw, res |-> res, wrote |-> wrote,
     rendered |-> rendered, authedBefore |-> authedBefore]

WasAuthed == isAuthed(localStorage) = JSBool(TRUE)

Init ==
    /\ localStorage = [k \in Keys |-> <<>>]
    /\ now = 0
    /\ page = [t \in Tabs |-> BlankPage]
    /\ last = Last("init", "A", FALSE, Undefined, {}, FALSE, FALSE)
    /\ ui \in InitialForms
    /\ call = InitialCalls

(***************************************************************************)
(* Operations on the credential store, called by the page in tab t         *)
(***************************************************************************)
Login(t, u, quota) ==
    LET r == login(localStorage, u, now, quota)
    IN  /\ localStorage' = r.ls
        /\ last' = Last("login", t, r.threw, Undefined, r.wrote, FALSE, WasAuthed)
        /\ UNCHANGED <<now, page, ui, call>>

Logout(t) ==
    /\ localStorage' = logout(localStorage)
    /\ last' = Last("logout", t, FALSE, Undefined, {}, FALSE, WasAuthed)
    /\ UNCHANGED <<now, page, ui, call>>

\* (a copy that answers from the session state its page was mounted with)
IsAuthed_cached(t) ==
    LET r == JSBool(\E p \in Paths(page[t].doc) : NodeAt(page[t].doc, p).id = "pw-account")
    IN  /\ last' = Last("isAuthed", t, FALSE, r, {}, FALSE, WasAuthed)
        /\ UNCHANGED <<localStorage, now, page, ui, call>>
IsAuthed(t) ==
    LET r == isAuthed(localStorage)
    IN  /\ last' = Last("isAuthed", t, IsError(r), r, {}, FALSE, WasAuthed)
        /\ UNCHANGED <<localStorage, now, page, ui, call>>

ReadUser_evict(t) ==
    LET r == user(localStorage)
        raw == getItem(localStorage, keyUser)
        corrupt == Truthy(raw) /\ IsError(JSONparse(raw.s))
    IN  /\ localStorage' = IF corrupt THEN removeItem(localStorage, keyUser)
                           ELSE localStorage
        /\ last' = Last("user", t, IsError(r), r, {}, FALSE, WasAuthed)
        /\ UNCHANGED <<now, page, ui, call>>
ReadUser(t) ==
    LET r == user(localStorage)
    IN  /\ last' = Last("user", t, IsError(r), r, {}, FALSE, WasAuthed)
        /\ UNCHANGED <<localStorage, now, page, ui, call>>

\* navHTML() / headerHTML() called on its own
RenderCall(t, script) ==
    LET r == Render(script, localStorage)
    IN  /\ last' = Last("render", t, r.threw, JSString(script), {}, FALSE, WasAuthed)
        /\ UNCHANGED <<localStorage, now, page, ui, call>>

\* Any other code of the origin (another script, the developer tools) sets
\* or removes a key directly.
DirectTexts == {"", "null", "false", "1", "not json", "tok"}
DirectWrite(k, text) ==
    /\ localStorage' = setItem(localStorage, k, text)
    /\ last' = Last("write", "A", FALSE, Undefined, {k}, FALSE, WasAuthed)
    /\ UNCHANGED <<now, page, ui, call>>
DirectRemove(k) ==
    /\ localStorage' = removeItem(localStorage, k)
    /\ last' = Last("remove", "A", FALSE, Undefined, {}, FALSE, WasAuthed)
    /\ UNCHANGED <<now, page, ui, call>>

\* The wall clock advances.
Tick ==
    /\ now < MaxNow
    /\ now' = now + 1
    /\ UNCHANGED <<localStorage, page, last, ui, call>>

(***************************************************************************)
(* Page life cycle in tab t                                                *)
(***************************************************************************)
\* The tab starts loading a page (a navigation requested through
\* location.href is committed, or the user opens or reloads a page).
LoadPage(t, layout, script) ==
    /\ page' = [page EXCEPT ![t] = Page(script, "loading", FALSE, 0, 0, layout, "")]
    /\ last' = Last(IF page[t].href = "" THEN "load" ELSE "navigate", t, FALSE,
                    Undefined, {}, FALSE, WasAuthed)
    /\ UNCHANGED <<localStorage, now, ui, call>>

\* The page's script runs: auth.js:3-76, part_001:2-42, part_001:51-113.
RunScript(t) ==
    LET pg == page[t]
        defer == pg.script = "inline" \/ pg.readyState = "loading"
        m == IF defer THEN Mounted(pg.doc, FALSE, FALSE)
             ELSE Mount(pg.script, pg.doc, localStorage)
    IN  /\ pg.script # "none"
        /\ ~pg.defined
        /\ page' = [page EXCEPT ![t] =
                      [pg EXCEPT !.defined = TRUE,
                                 !.styles = IF pg.script = "inline" THEN @ ELSE @ + 1,
                                 !.dcl = IF defer THEN @ + 1 ELSE @,
                                 !.doc = m.doc]]
        /\ last' = Last(IF defer THEN "script" ELSE "mount", t, m.threw, Undefined,
                        {}, m.rendered, WasAuthed)
        /\ UNCHANGED <<localStorage, now, ui, call>>

\* The document has been parsed: DOMContentLoaded fires and runs the
\* registered listener.
DOMContentLoaded(t) ==
    LET pg == page[t]
        m == IF pg.dcl > 0 THEN Mount(pg.script, pg.doc, localStorage)
             ELSE Mounted(pg.doc, FALSE, FALSE)
    IN  /\ pg.readyState = "loading"
        /\ page' = [page EXCEPT ![t] = [pg EXCEPT !.readyState = "interactive",
                                                  !.doc = m.doc]]
        /\ last' = Last(IF pg.dcl > 0 THEN "mount" ELSE "ready", t, m.threw, Undefined,
                        {}, m.rendered, WasAuthed)
        /\ UNCHANGED <<localStorage, now, ui, call>>

\* A later call of the mount operation through window.PW_AUTH.
CallMount(t) ==
    LET pg == page[t]
        m == Mount(pg.script, pg.doc, localStorage)
    IN  /\ pg.defined
        /\ page' = [page EXCEPT ![t] = [pg EXCEPT !.doc = m.doc]]
        /\ last' = Last("mount", t, m.threw, Undefined, {}, m.rendered, WasAuthed)
        /\ UNCHANGED <<localStorage, now, ui, call>>

\* () => { this.logout(); location.href = 'login.html'; }
Handled(ls, href) == [ls |-> ls, href |-> href]
logoutHandler_noLogout(ls) == Handled(ls, "login.html")
logoutHandler(ls) == Handled(logout(ls), "login.html")

HasClickListener(doc) == \E p \in Paths(doc) : NodeAt(doc, p).click > 0

\* The user clicks the logout control of the page.
ClickLogout(t) ==
    LET h == logoutHandler(localStorage)
    IN  /\ HasClickListener(page[t].doc)
        /\ localStorage' = h.ls
        /\ page' = [page EXCEPT ![t].href = h.href]
        /\ last' = Last("click", t, FALSE, Undefined, {}, FALSE, WasAuthed)
        /\ UNCHANGED <<now, ui, call>>

(***************************************************************************)
(* Handlers of the risk page.  Each handler runs up to its await of the    *)
(* request when the user acts, and from there to its end when the answer   *)
(* arrives; answers arrive in any order.                                   *)
(***************************************************************************)
PendingOf(a) == {rq \in ui.inflight : rq.kind = a}
Sent(form, a, pendingText) ==
    LET seq == form.clicks[a] + 1
    IN  [form EXCEPT !.out[a] = pendingText, !.by[a] = seq,
                     !.inflight = @ \cup {Request(a, seq)},
                     !.clicks[a] = seq, !.sent[a] = @ + 1]
Settled(form, rq, resp, text) ==
    [form EXCEPT !.out[rq.kind] = text, !.by[rq.kind] = rq.seq,
                 !.inflight = @ \ {rq}, !.done = rq, !.answer = resp]

ClickHealth ==
    /\ ui.clicks["health"] < MaxSubmits
    /\ ui' = Sent(ui, "health", "Checking...")
    /\ UNCHANGED <<localStorage, now, page, last, call>>

HealthResponse(rq, resp) ==
    LET f == fetchJson(resp)
    IN  /\ rq \in PendingOf("health")
        /\ ui' = Settled(ui, rq, resp,
                         IF f.threw THEN "Health check failed: " \o f.err
                         ELSE stringify(f.j))
        /\ UNCHANGED <<localStorage, now, page, last, call>>

SubmitRisk ==
    /\ ui.clicks["risk"] < MaxSubmits
    /\ ui' = Sent(ui, "risk", "Computing...")
    /\ UNCHANGED <<localStorage, now, page, last, call>>

RiskResponse(rq, resp) ==
    LET f == fetchJson(resp)
    IN  /\ rq \in PendingOf("risk")
        /\ ui' = IF f.threw
                 THEN Settled(ui, rq, resp, "Error: " \o f.err)
                 ELSE [Settled(ui, rq, resp, stringify(f.j)) EXCEPT
                          !.badge = showBadge(ui.badge, f.j, rq.seq)]
        /\ UNCHANGED <<localStorage, now, page, last, call>>

ClickUpload(hasFile) ==
    /\ ui.clicks["upload"] < MaxSubmits
    /\ ui' = IF ~hasFile
             THEN [ui EXCEPT !.out["upload"] = "Pick a CSV first.",
                             !.by["upload"] = ui.clicks["upload"] + 1,
                             !.clicks["upload"] = @ + 1, !.skipped = @ + 1]
             ELSE Sent(ui, "upload", ui.out["upload"])
    /\ UNCHANGED <<localStorage, now, page, last, call>>

UploadResponse(rq, resp) ==
    LET f == fetchJson(resp)
    IN  /\ rq \in PendingOf("upload")
        /\ ui' = Settled(ui, rq, resp,
                         IF f.threw THEN "Upload error: " \o f.err
                         ELSE stringify(f.j))
        /\ UNCHANGED <<localStorage, now, page, last, call>>

(***************************************************************************)
(* login and logout, one key access at a time.  Each access is atomic; the *)
(* accesses of calls made by different tabs interleave.                    *)
(***************************************************************************)
MaxCalls == 3
MidCall(t) == call.pc[t].op # "idle"
\* an access by tab t falls between the two accesses of another tab's call
Separates(t) == \E o \in Tabs \ {t} : MidCall(o)

\* (a login that keeps an identity that is already stored)
BeginLogin_keepUser(t, u) ==
    LET id == call.begun + 1
        kept == localStorage[keyUser] # <<>>
    IN  /\ ~MidCall(t)
        /\ call.begun < MaxCalls
        /\ localStorage' = IF kept THEN localStorage
                           ELSE setItem(localStorage, keyUser, JSONstringify(u))
        /\ call' = [call EXCEPT !.pc[t] = [op |-> "login", u |-> u, id |-> id],
                                !.writer[keyUser] = IF kept THEN @ ELSE id,
                                !.begun = id,
                                !.separated = @ \/ Separates(t)]
        /\ UNCHANGED <<now, page, last, ui>>
\* login, first access: localStorage.setItem(this.keyUser, JSON.stringify(u))
BeginLogin(t, u) ==
    LET id == call.begun + 1
    IN  /\ ~MidCall(t)
        /\ call.begun < MaxCalls
        /\ localStorage' = setItem(localStorage, keyUser, JSONstringify(u))
        /\ call' = [call EXCEPT !.pc[t] = [op |-> "login", u |-> u, id |-> id],
                                !.writer[keyUser] = id,
                                !.begun = id,
                                !.separated = @ \/ Separates(t)]
        /\ UNCHANGED <<now, page, last, ui>>

\* login, second access: localStorage.setItem(this.keyToken, btoa(...))
EndLogin(t) ==
    LET c == call.pc[t]
        tok == btoa(TemplateText(GetEmail(c.u)) \o ":" \o ToString(now))
    IN  /\ c.op = "login"
        /\ localStorage' = setItem(localStorage, keyToken, tok.s)
        /\ call' = [call EXCEPT !.pc[t] = Idle,
                                !.writer[keyToken] = c.id,
                                !.separated = @ \/ Separates(t)]
        /\ UNCHANGED <<now, page, last, ui>>

\* logout, first access: localStorage.removeItem(this.keyUser)
BeginLogout(t) ==
    LET id == call.begun + 1
    IN  /\ ~MidCall(t)
        /\ call.begun < MaxCalls
        /\ localStorage' = removeItem(localStorage, keyUser)
        /\ call' = [call EXCEPT !.pc[t] = [op |-> "logout", u |-> JSNull, id |-> id],
                                !.writer[keyUser] = 0,
                                !.begun = id,
                                !.separated = @ \/ Separates(t)]
        /\ UNCHANGED <<now, page, last, ui>>

\* logout, second access: localStorage.removeItem(this.keyToken)
EndLogout(t) ==
    LET c == call.pc[t]
    IN  /\ c.op = "logout"
        /\ localStorage' = removeItem(localStorage, keyToken)
        /\ call' = [call EXCEPT !.pc[t] = Idle,
                                !.writer[keyToken] = 0,
                                !.separated = @ \/ Separates(t)]
        /\ UNCHANGED <<now, page, last, ui>>

\* isAuthed() called by a tab that is not inside a call of its own
Observe(t) ==
    /\ ~MidCall(t)
    /\ IsAuthed(t)

(***************************************************************************)
(* Specifications                                                          *)
(***************************************************************************)
\* The credential store under every operation of the accessor, failing
\* writes and direct writes included.
NextStore ==
    \/ \E t \in Tabs, u \in LoginInputs, q \in QuotaFailures : Login(t, u, q)
    \/ \E t \in Tabs : Logout(t)
    \/ \E t \in Tabs : IsAuthed(t)
    \/ \E t \in Tabs : ReadUser(t)
    \/ \E t \in Tabs, sc \in Scripts : RenderCall(t, sc)
    \/ \E k \in Keys, x \in DirectTexts : DirectWrite(k, x)
    \/ \E k \in Keys : DirectRemove(k)
    \/ Tick
SpecStore == Init /\ [][NextStore]_vars

\* Complete login and logout calls only, from the empty store.
CompleteLogins == {u \in Identities : ~IsError(btoa(TemplateText(GetEmail(u)) \o ":0"))}
NextSession ==
    \/ \E t \in Tabs, u \in CompleteLogins : Login(t, u, "none")
    \/ \E t \in Tabs : Logout(t)
    \/ \E t \in Tabs : IsAuthed(t)
    \/ \E t \in Tabs : ReadUser(t)
    \/ \E t \in Tabs, sc \in Scripts : RenderCall(t, sc)
    \/ Tick
SpecSession == Init /\ [][NextSession]_vars

\* One page (tab A) with its document, over a store that the page and
\* other code of the origin change.
PageLogins == {JSObject("a@x.org"), EmptyObject}
PageTexts == {"", "not json"}
NextPage ==
    \/ \E l \in Layouts, sc \in Scripts : LoadPage("A", l, sc)
    \/ RunScript("A")
    \/ DOMContentLoaded("A")
    \/ CallMount("A")
    \/ ClickLogout("A")
    \/ IsAuthed("A")
    \/ ReadUser("A")
    \/ \E sc \in Scripts : RenderCall("A", sc)
    \/ \E u \in PageLogins : Login("B", u, "none")
    \/ Logout("B")
    \/ \E k \in Keys, x \in PageTexts : DirectWrite(k, x)
SpecPage == Init /\ [][NextPage]_vars

\* Two tabs, each with a page carrying a copy that renders into an existing
\* header, over the shared store.
TabLayouts == {l \in Layouts : navHost(l) # NoNode /\ headerHost(l) # NoNode}
TabScripts == {"nav", "iife"}
TabLogins == {JSObject("a@x.org")}
NextTabs ==
    \/ \E t \in Tabs, l \in TabLayouts, sc \in TabScripts : LoadPage(t, l, sc)
    \/ \E t \in Tabs : RunScript(t)
    \/ \E t \in Tabs : DOMContentLoaded(t)
    \/ \E t \in Tabs : ClickLogout(t)
    \/ \E t \in Tabs : IsAuthed(t)
    \/ \E t \in Tabs, u \in TabLogins : Login(t, u, "none")
    \/ \E t \in Tabs : Logout(t)
SpecTabs == Init /\ [][NextTabs]_vars

\* The risk form alone, under every score of the range and every failure.
RiskAnswers == {Scored(n) : n \in Scores} \cup Failures
NextRisk ==
    \/ SubmitRisk
    \/ \E rq \in PendingOf("risk"), resp \in RiskAnswers : RiskResponse(rq, resp)
SpecRisk == Init /\ [][NextRisk]_vars

\* The three handlers of the risk page, with one score of each band.
BandScores == {ModerateMin - 1, ModerateMin, ModerateMax + 1}
PlainAnswers == {StatusOk} \cup Failures
NextApi ==
    \/ ClickHealth
    \/ \E rq \in PendingOf("health"), resp \in PlainAnswers : HealthResponse(rq, resp)
    \/ SubmitRisk
    \/ \E rq \in PendingOf("risk"), resp \in {Scored(n) : n \in BandScores} \cup Failures :
          RiskResponse(rq, resp)
    \/ \E hasFile \in BOOLEAN : ClickUpload(hasFile)
    \/ \E rq \in PendingOf("upload"), resp \in PlainAnswers : UploadResponse(rq, resp)
SpecApi == Init /\ [][NextApi]_vars

\* Two tabs calling login and logout on the shared store, access by access.
StepLogins == {JSObject("a@x.org"), JSObject("b@x.org")}
NextInterleaved ==
    \/ \E t \in Tabs, u \in StepLogins : BeginLogin(t, u)
    \/ \E t \in Tabs : EndLogin(t)
    \/ \E t \in Tabs : BeginLogout(t)
    \/ \E t \in Tabs : EndLogout(t)
    \/ \E t \in Tabs : Observe(t)
SpecInterleaved == Init /\ [][NextInterleaved]_vars

Next ==
    \/ NextStore
    \/ \E t \in Tabs, l \in Layouts, sc \in Scripts : LoadPage(t, l, sc)
    \/ \E t \in Tabs : RunScript(t)
    \/ \E t \in Tabs : DOMContentLoaded(t)
    \/ \E t \in Tabs : CallMount(t)
    \/ \E t \in Tabs : ClickLogout(t)
    \/ NextRisk
    \/ NextApi
    \/ NextInterleaved
Spec == Init /\ [][Next]_vars

(***************************************************************************)
(* Properties                                                              *)
(***************************************************************************)
Authed == isAuthed(localStorage) = JSBool(TRUE)
NotAuthed == isAuthed(localStorage) = JSBool(FALSE)
Absent(k) == localStorage[k] = <<>>

\* C1: after a login call that returned normally, whatever identity it was
\* given and whatever the store held before, isAuthed() returns true; after
\* a logout call isAuthed() returns false.
C1_LoginLogoutThenIsAuthed ==
    /\ (last.op = "login" /\ ~last.threw) => Authed
    /\ last.op = "logout" => NotAuthed
\* a login that replaced another session returned normally
C1_Witness ==
    /\ last.op = "login" /\ ~last.threw /\ last.wrote = Keys
    /\ last.authedBefore
    /\ Authed

\* The stored identity text denotes a truthy JSON value / the marker is a
\* non-empty text.
IdentityTruthy ==
    /\ ~Absent(keyUser)
    /\ LET v == JSONparse(localStorage[keyUser][1])
       IN  /\ ~IsError(v)
           /\ v \notin {JSNull, JSBool(FALSE), JSNumber("0"), JSString("")}
MarkerNonEmpty == ~Absent(keyToken) /\ localStorage[keyToken][1] # ""

\* C2 as stated: isAuthed() returns true iff the identity read back and the
\* marker are both present and non-null.
C2_PresentNonNull ==
    Authed <=> (user(localStorage) # JSNull /\ token(localStorage) # JSNull)
\* C2 as amended: isAuthed() returns true iff the stored identity parses to
\* a truthy value and the stored marker is a non-empty string; a state in
\* which exactly one of the two keys is present is not authenticated.
C2_TruthyBoth ==
    /\ ~IsError(isAuthed(localStorage))
    /\ Authed <=> (IdentityTruthy /\ MarkerNonEmpty)
    /\ (Absent(keyUser) # Absent(keyToken)) => NotAuthed
\* isAuthed() was called with exactly one key present and returned false
C2_Witness ==
    /\ last.op = "isAuthed" /\ last.res = JSBool(FALSE)
    /\ Absent(keyUser) # Absent(keyToken)

\* C3: from the empty store, after any sequence of complete login and
\* logout calls, pw_user and pw_token are both present or both absent.
C3_SetAndClearedTogether == Absent(keyUser) <=> Absent(keyToken)
\* a logout has cleared a stored session
C3_Witness ==
    /\ last.op = "logout" /\ last.authedBefore
    /\ Absent(keyUser) /\ Absent(keyToken)

Unparsable(k) == ~Absent(k) /\ IsError(JSONparse(localStorage[k][1]))

\* C4: while pw_user holds an unparsable text, whatever pw_token holds, the
\* identity read is null, isAuthed() is false, and neither of the two calls
\* nor a mount raises.
C4_DefensiveRead ==
    Unparsable(keyUser) =>
        /\ user(localStorage) = JSNull
        /\ NotAuthed
        /\ last.op \in {"user", "isAuthed", "mount"} => ~last.threw
\* a mount rendered navigation over an unparsable identity and a marker
C4_Witness ==
    /\ Unparsable(keyUser) /\ MarkerNonEmpty
    /\ last.op = "mount" /\ last.rendered /\ ~last.threw

\* C5: when exactly one of login's two writes succeeded and the call
\* failed, the next isAuthed() returns false.
C5_HalfLoginNotAuthed ==
    (last.op = "login" /\ last.threw /\ Cardinality(last.wrote) = 1) => NotAuthed

\* the navigation elements of a document
NavCount(doc) == Cardinality({p \in Paths(doc) : NodeAt(doc, p).tag = "nav"})
\* the step is a run of the mount operation in tab t
MountStep(t) == last'.op = "mount" /\ last'.tab = t

\* C6: a mount on a document that already holds the injected navigation
\* does not render again and leaves exactly one navigation element.
C6_MountIdempotent ==
    [][\A t \in Tabs :
          (MountStep(t) /\ NavCount(page[t].doc) >= 1) =>
              (~last'.rendered /\ NavCount(page'[t].doc) = 1)]_vars

\* C7: every child the host had before a mount is still its child after
\* it, in the same order, and rendered navigation comes after them.
C7_MountAppendOnly ==
    [][\A t \in Tabs :
          LET h == HostOf(page[t].script, page[t].doc)
              before == NodeAt(page[t].doc, h).kids
              after == NodeAt(page'[t].doc, h).kids
          IN  (MountStep(t) /\ h # NoNode) =>
                  /\ Len(before) <= Len(after)
                  /\ SubSeq(after, 1, Len(before)) = before
                  /\ last'.rendered =>
                        /\ Len(after) = Len(before) + 1
                        /\ after[Len(after)].tag = "nav"]_vars

\* C8: a mount on a document without any host candidate raises nothing,
\* leaves the document as it was and renders nothing.
C8_NoHostNoOp ==
    [][\A t \in Tabs :
          (MountStep(t) /\ HostOf(page[t].script, page[t].doc) = NoNode) =>
              /\ page'[t].doc = page[t].doc
              /\ ~last'.threw
              /\ ~last'.rendered]_vars

\* the elements of a piece of markup
Nodes(html) == {NodeAt(Body(html), p) : p \in Paths(Body(html)) \ {<<>>}}
HasLogoutControl(html) == \E n \in Nodes(html) : n.id = "pw-logout"
HasAccountLabel(html) == \E n \in Nodes(html) : n.id = "pw-account"
HasLink(html, href) == \E n \in Nodes(html) : n.tag = "a" /\ n.href = href
\* the email of the stored identity, "Account" when it is missing or empty
StoredLabel ==
    LET v == JSONparse(localStorage[keyUser][1])
    IN  IF v.t = "object" /\ v.has /\ v.s # "" THEN v.s ELSE "Account"

\* C9: every render operation returns, when authenticated, the account
\* label and the logout control and no login or register link, and when
\* not authenticated, the login and register links and neither the account
\* label nor the logout control.
C9_RenderBranches ==
    last.op = "render" =>
        LET r == Render(last.res.s, localStorage)
        IN  /\ ~last.threw
            /\ Authed =>
                  /\ \E n \in Nodes(r.html) : n.id = "pw-account" /\ n.text = StoredLabel
                  /\ HasLogoutControl(r.html)
                  /\ ~HasLink(r.html, "login.html")
                  /\ ~HasLink(r.html, "register.html")
            /\ ~Authed =>
                  /\ HasLink(r.html, "login.html")
                  /\ HasLink(r.html, "register.html")
                  /\ ~HasAccountLabel(r.html)
                  /\ ~HasLogoutControl(r.html)

\* C10: when the logout control's click handler has run, both keys are
\* absent and the navigation to the login page is requested, whatever the
\* store held when the control was clicked.
C10_LogoutClick ==
    \A t \in Tabs :
        (last.op = "click" /\ last.tab = t) =>
            /\ Absent(keyUser) /\ Absent(keyToken)
            /\ page[t].href = "login.html"
\* the control was clicked after the store had stopped being authenticated
C10_Witness ==
    /\ last.op = "click" /\ ~last.authedBefore
    /\ page[last.tab].href = "login.html"
    /\ Absent(keyUser) /\ Absent(keyToken)

\* C11: a script that ran without mounting ran while the document was
\* loading and left a DOMContentLoaded listener that mounts; a script that
\* runs after the event mounts at once.
C11_MountScheduling ==
    \A t \in Tabs :
        /\ (last.op = "script" /\ last.tab = t) =>
              (page[t].readyState = "loading" /\ page[t].dcl > 0)
        /\ (last.op = "ready" /\ last.tab = t) => ~page[t].defined

\* C12: the path Render -> Inject -> BindHandlers runs at most once per page
\* load: a mount renders only into a document no mount has rendered into.
C12_RenderAtMostOnce ==
    [][\A t \in Tabs :
          (MountStep(t) /\ last'.rendered) => NavCount(page[t].doc) = 0]_vars

\* the operations that only load pages, mount, render or read
ReadOps == {"load", "navigate", "script", "mount", "ready", "render", "user", "isAuthed"}

\* C14: page loads, mounts, renders, identity reads and isAuthed calls leave
\* pw_user and pw_token as they are, and a key that holds a value loses it
\* only in a logout (called directly or by the logout control).
C14_StorePersists ==
    [][/\ last'.op \in ReadOps => localStorage' = localStorage
       /\ \A k \in Keys :
             (localStorage[k] # <<>> /\ localStorage'[k] = <<>>) =>
                 last'.op \in {"logout", "click"}]_vars
\* a page loaded after the login has mounted the stored session
C14_Witness ==
    /\ last.op = "mount" /\ last.rendered /\ last.authedBefore
    /\ Authed
    /\ HasAccountLabel(<<page[last.tab].doc>>)

\* the session state read back from a store: identity and marker
SessionState(ls) == <<user(ls), token(ls)>>
\* the stores two keys can hold over the texts of the model
StoreItems ==
    {<<>>} \cup {<<x>> : x \in DirectTexts \cup {JSONstringify(u) : u \in LoginInputs}}

\* C15: a render call changes neither the store nor the document, and its
\* markup is the same for every store that reads back as the same session
\* state.
C15_RenderPure ==
    /\ [][last'.op = "render" => UNCHANGED <<localStorage, page>>]_vars
    /\ [](last.op = "render" =>
            \A ls2 \in [Keys -> StoreItems] :
                SessionState(ls2) = SessionState(localStorage) =>
                    Render(last.res.s, ls2) = Render(last.res.s, localStorage))
\* a render call on a mounted page with a stored session
C15_Witness ==
    /\ last.op = "render" /\ ~last.threw
    /\ Authed
    /\ NavCount(page[last.tab].doc) = 1

\* C13: a logout in one tab leaves the page of every other tab as it was
\* (its navigation still shows the account label and the logout control);
\* an isAuthed() call that follows the logout returns false, and a mount
\* that renders while the store is not authenticated shows neither.
C13_CrossTab ==
    /\ [][\A a \in Tabs : \A b \in Tabs \ {a} :
             (last'.op \in {"logout", "click"} /\ last'.tab = a) =>
                 page'[b] = page[b]]_vars
    /\ [][(last.op \in {"logout", "click"} /\ last'.op = "isAuthed") =>
             last'.res = JSBool(FALSE)]_vars
    /\ [][\A t \in Tabs :
             (MountStep(t) /\ last'.rendered /\ NotAuthed) =>
                 /\ ~HasAccountLabel(<<page'[t].doc>>)
                 /\ ~HasLogoutControl(<<page'[t].doc>>)]_vars
\* tab A has logged out while tab B still shows the account navigation
C13_Witness ==
    /\ last.op \in {"logout", "click"} /\ last.tab = "A" /\ last.authedBefore
    /\ NotAuthed
    /\ HasAccountLabel(<<page["A"].doc>>)
    /\ HasAccountLabel(<<page["B"].doc>>) /\ HasLogoutControl(<<page["B"].doc>>)

\* C16: the band of every score of the range is Low below 6, Moderate from
\* 6 to 15 inclusive and High above 15; and once a response with a score
\* has been handled, the badge text names that band and score and the badge
\* carries the class of that band and no other band class.
BandClasses == {"low", "moderate", "high"}
ExpectedLabel(n) == IF n < 6 THEN "Low" ELSE IF n <= 15 THEN "Moderate" ELSE "High"
ExpectedClass(n) == IF n < 6 THEN "low" ELSE IF n <= 15 THEN "moderate" ELSE "high"
ScoredDone == ui.done.kind = "risk" /\ ui.answer.hasScore /\ ui.answer.status = 200 /\ ui.badge.present
C16_BadgeBands ==
    /\ classify(5).label = "Low" /\ classify(6).label = "Moderate"
    /\ classify(15).label = "Moderate" /\ classify(16).label = "High"
    /\ \A n \in Scores : classify(n) = Band(ExpectedLabel(n), ExpectedClass(n))
    /\ ScoredDone =>
          /\ ui.badge.text = "Risk Level: " \o ExpectedLabel(ui.answer.score)
                               \o " (score " \o ToString(ui.answer.score) \o ")"
          /\ ui.badge.classes \cap BandClasses = {ExpectedClass(ui.answer.score)}
\* the response to a second submission, with the score of the upper
\* boundary, has been handled and the badge shows Moderate
C16_Witness ==
    /\ ScoredDone /\ ui.done.seq = 2 /\ ui.inflight = {}
    /\ ui.answer.score = 15 /\ ui.badge.classes = {"moderate"}
    /\ ui.badge.text = "Risk Level: Moderate (score 15)"

\* C17: when the request handled most recently failed (network error,
\* non-2xx status or unparsable body), the output area of its action shows
\* that action's error message (or the error body the API sent) and the
\* badge was not written from that answer; and every action that reaches
\* the API has sent one request.
Failed(resp) == ~resp.net \/ resp.status < 200 \/ resp.status > 299 \/ ~resp.json
ErrorPrefix == [a \in Actions |->
                  CASE a = "health" -> "Health check failed: "
                    [] a = "risk" -> "Error: "
                    [] OTHER -> "Upload error: "]
ErrorTexts(a) == {ErrorPrefix[a] \o e : e \in {"TypeError: Failed to fetch", "SyntaxError: Unexpected token"}}
C17_FailureSurfaced ==
    /\ (ui.done.kind \in Actions /\ Failed(ui.answer)) =>
          /\ ui.out[ui.done.kind] \in ErrorTexts(ui.done.kind) \cup {ui.answer.text}
          /\ ui.done.kind = "risk" => ui.badge.by # ui.done.seq
    /\ \A a \in Actions :
          ui.sent[a] = ui.clicks[a] - (IF a = "upload" THEN ui.skipped ELSE 0)

\* C19: once every response to the risk form has arrived, the output area
\* and the badge (if one is shown) were written for the most recent
\* submission; and an error message in the output area is never shown next
\* to the badge of an earlier submission.
C19_LatestSubmissionShown ==
    /\ (ui.clicks["risk"] > 0 /\ PendingOf("risk") = {}) =>
          /\ ui.by["risk"] = ui.clicks["risk"]
          /\ ui.badge.by \in {0, ui.clicks["risk"]}
    /\ ui.out["risk"] \in ErrorTexts("risk") =>
          ~(0 < ui.badge.by /\ ui.badge.by < ui.by["risk"])

\* C18 (as claimed): whenever no call is between its two accesses and
\* isAuthed() is true, the stored marker was written by the login call that
\* wrote the stored identity.
Quiet == \A t \in Tabs : ~MidCall(t)
Paired == call.writer[keyUser] # 0 /\ call.writer[keyUser] = call.writer[keyToken]
====
